---- MODULE Spec2Model ----
(***************************************************************************)
(* The used-book-store backend: src/app/main_enhanced.py (authentication   *)
(* and listing handlers over two MongoDB collections) and                  *)
(* src/test_ingestion.py (the spreadsheet ingestion script writing to the  *)
(* same Book_inventory collection).                                        *)
(*                                                                         *)
(* A document is a function from field names to values; a collection is a  *)
(* function from ObjectIds (naturals, in order of creation) to documents.  *)
(* Every handler is one action; its HTTP response is kept in `response`,   *)
(* and the collections as they were when the handler started in `before`.  *)
(***************************************************************************)
EXTENDS Integers, Sequences, FiniteSets, TLC

VARIABLES
    users_collection,   \* db["users"]: ObjectId -> user document
    books_collection,   \* db["Book_inventory"]: ObjectId -> listing document
    next_oid,           \* the next ObjectId the driver generates
    clock,              \* datetime.utcnow(), in days
    response,           \* what the last call returned or raised
    before,             \* the two collections when the last call started
    runs                \* the ingestion script: what each run_full_ingestion call so far printed

vars == <<users_collection, books_collection, next_oid, clock, response, before, runs>>

----------------------------------------------------------------------------
(* Bounds of the model *)

OidHexLen == 2      \* hex digits of an ObjectId's string form
MaxUsers == 2       \* user records created
MaxSeed == 2        \* documents in the collection before the read routes are called
MaxClock == 14      \* last day the clock reaches

(* Program constants *)

TOKEN_DAYS == 7
DEFAULT_LIMIT == 50
SECRET_KEY == "your-secret-key-change-in-production"
ALGORITHM == "HS256"

----------------------------------------------------------------------------
(* Python values and dictionaries *)

None == "<None>"

Has(d, k) == k \in DOMAIN d

\* d[k] = v
Put(d, k, v) == [x \in DOMAIN d \cup {k} |-> IF x = k THEN v ELSE d[x]]

\* d.get(k, default)
Get(d, k, default) == IF Has(d, k) THEN d[k] ELSE default

\* {**d, **e}: the fields of e written over d, as $set does
Merge(d, e) == [x \in DOMAIN d \cup DOMAIN e |-> IF x \in DOMAIN e THEN e[x] ELSE d[x]]

EmptyDoc == [x \in {} |-> None]

\* collection.insert_one(doc) under the ObjectId oid
Insert(coll, oid, doc) == [x \in DOMAIN coll \cup {oid} |-> IF x = oid THEN doc ELSE coll[x]]

\* collection.delete_one({"_id": oid})
Remove(coll, oid) == [x \in DOMAIN coll \ {oid} |-> coll[x]]

----------------------------------------------------------------------------
(* Python strings *)

\* needle in hay
Contains(hay, needle) ==
    \E i \in 1..(Len(hay) - Len(needle) + 1) : SubSeq(hay, i, i + Len(needle) - 1) = needle

UpperCase == "ABCDEFGHIJKLMNOPQRSTUVWXYZ"
LowerCase == "abcdefghijklmnopqrstuvwxyz"

LowerChar(c) ==
    IF \E i \in 1..Len(UpperCase) : SubSeq(UpperCase, i, i) = c
    THEN LET i == CHOOSE j \in 1..Len(UpperCase) : SubSeq(UpperCase, j, j) = c IN
         SubSeq(LowerCase, i, i)
    ELSE c

\* s.lower()
RECURSIVE lower(_)
lower(s) == IF Len(s) = 0 THEN "" ELSE LowerChar(SubSeq(s, 1, 1)) \o lower(SubSeq(s, 2, Len(s)))

\* s.strip()
RECURSIVE strip(_)
strip(s) ==
    IF Len(s) = 0 THEN ""
    ELSE IF SubSeq(s, 1, 1) = " " THEN strip(SubSeq(s, 2, Len(s)))
    ELSE IF SubSeq(s, Len(s), Len(s)) = " " THEN strip(SubSeq(s, 1, Len(s) - 1))
    ELSE s

\* s.replace(old, new), old a single character
RECURSIVE replace(_, _, _)
replace(s, old, new) ==
    IF Len(s) = 0 THEN ""
    ELSE (IF SubSeq(s, 1, 1) = old THEN new ELSE SubSeq(s, 1, 1))
         \o replace(SubSeq(s, 2, Len(s)), old, new)

----------------------------------------------------------------------------
(* bson.ObjectId: str(oid) is its hexadecimal form, ObjectId(s) parses it  *)
(* back and raises InvalidId on anything else.                             *)

HexDigits == <<"0", "1", "2", "3", "4", "5", "6", "7", "8", "9", "a", "b", "c", "d", "e", "f">>

RECURSIVE hex(_, _)
hex(n, width) == IF width = 0 THEN "" ELSE hex(n \div 16, width - 1) \o HexDigits[(n % 16) + 1]

\* str(oid)
str_oid(oid) == hex(oid, OidHexLen)

HexValue(c) == CHOOSE v \in 0..15 : HexDigits[v + 1] = c

IsValidOid(s) ==
    /\ Len(s) = OidHexLen
    /\ \A i \in 1..Len(s) : \E v \in 1..16 : HexDigits[v] = SubSeq(s, i, i)

RECURSIVE ParseHex(_)
ParseHex(s) ==
    IF Len(s) = 0 THEN 0
    ELSE 16 * ParseHex(SubSeq(s, 1, Len(s) - 1)) + HexValue(SubSeq(s, Len(s), Len(s)))

\* ObjectId(s), which raises bson.errors.InvalidId unless IsValidOid(s)
ObjectId(s) == ParseHex(s)

----------------------------------------------------------------------------
(* Results of a call: a value returned, an HTTPException raised, or an     *)
(* exception no handler catches (the framework answers 500).               *)

\* The body of a call that returned nothing
NoBody == [nothing |-> None]

Ok(body) == [status |-> 200, detail |-> "", body |-> body]
HTTPException(status_code, detail) == [status |-> status_code, detail |-> detail, body |-> NoBody]
Unhandled(exception) == [status |-> 500, detail |-> exception, body |-> NoBody]

Snapshot == [users |-> users_collection, books |-> books_collection]

\* A route without Depends(verify_token)
NoAuth == [status |-> 0, body |-> NoBody]

\* The record of a call: the route, its arguments, when it was made, what verify_token
\* gave it, and its result
Respond(op, args, auth, result) ==
    [op |-> op, args |-> args, at |-> clock, auth |-> auth.status, user |-> auth.body] @@ result

----------------------------------------------------------------------------
(* bcrypt and jwt *)

Salts == {"salt1"}

hashpw(password, salt) == [salt |-> salt, digest |-> <<salt, password>>]
checkpw(password, hashed) == hashpw(password, hashed.salt) = hashed

jwt_encode(payload, key) == [payload |-> payload, signature |-> key]

\* create_token with the expiry subtracted instead of added
create_token_backdated(user_id, role) ==
    jwt_encode([sub |-> user_id, role |-> role, exp |-> clock - TOKEN_DAYS], SECRET_KEY)

create_token(user_id, role) ==
    jwt_encode([sub |-> user_id, role |-> role, exp |-> clock + TOKEN_DAYS], SECRET_KEY)

\* jwt.decode: the payload, or the name of the error it raises
jwt_decode(token, key) ==
    IF token.signature # key THEN [error |-> "InvalidTokenError"]
    ELSE IF token.payload.exp <= clock THEN [error |-> "ExpiredSignatureError"]
    ELSE [error |-> "", payload |-> token.payload]

verify_token(token) ==
    LET decoded == jwt_decode(token, SECRET_KEY) IN
    IF decoded.error = "ExpiredSignatureError" THEN HTTPException(401, "Token expired")
    ELSE IF decoded.error = "InvalidTokenError" THEN HTTPException(401, "Invalid token")
    ELSE LET user_id == decoded.payload.sub
             oid == ObjectId(user_id) IN
         IF ~IsValidOid(user_id) THEN Unhandled("InvalidId")
         ELSE IF oid \notin DOMAIN users_collection THEN HTTPException(401, "User not found")
         ELSE Ok(Put(users_collection[oid], "_id", str_oid(oid)))

----------------------------------------------------------------------------
(* Inputs of the authentication routes *)

Names == {"Reader"}
Emails == {"a@x.pk", "b@x.pk"}
Passwords == {"pw1"}
LoginPasswords == Passwords \cup {"wrong"}
RoleInputs == {"user", "admin", "guest"}

FindByEmail(email) == {o \in DOMAIN users_collection : users_collection[o].email = email}

\* register without the lookup of the email
register_result_no_lookup(name, email, password, role, salt) ==
    IF role \notin {"user", "admin"} THEN HTTPException(400, "Invalid role")
    ELSE LET user_id == str_oid(next_oid) IN
         Ok([token |-> create_token(user_id, role),
             user |-> [id |-> user_id, name |-> name, email |-> email, role |-> role]])

register_result(name, email, password, role, salt) ==
    IF FindByEmail(email) # {} THEN HTTPException(400, "Email already registered")
    ELSE IF role \notin {"user", "admin"} THEN HTTPException(400, "Invalid role")
    ELSE LET user_id == str_oid(next_oid) IN
         Ok([token |-> create_token(user_id, role),
             user |-> [id |-> user_id, name |-> name, email |-> email, role |-> role]])

register(name, email, password, role, salt) ==
    LET r == register_result(name, email, password, role, salt) IN
    /\ Cardinality(DOMAIN users_collection) < MaxUsers \/ r.status # 200
    /\ response' = Respond("register",
                            [name |-> name, email |-> email, password |-> password, role |-> role],
                            NoAuth, r)
    /\ before' = Snapshot
    /\ IF r.status = 200
       THEN /\ users_collection' =
                   Insert(users_collection, next_oid,
                          [name |-> name, email |-> email, password |-> hashpw(password, salt),
                           role |-> role, created_at |-> clock])
            /\ next_oid' = next_oid + 1
       ELSE UNCHANGED <<users_collection, next_oid>>
    /\ UNCHANGED <<books_collection, clock, runs>>

login_result(email, password, role) ==
    LET found == FindByEmail(email) IN
    IF found = {} THEN HTTPException(401, "Invalid credentials")
    ELSE LET oid == CHOOSE o \in found : \A p \in found : o <= p
             user == users_collection[oid] IN
         IF ~checkpw(password, user.password) THEN HTTPException(401, "Invalid credentials")
         ELSE IF user.role # role THEN HTTPException(403, "Invalid role for this account")
         ELSE LET user_id == str_oid(oid) IN
              Ok([token |-> create_token(user_id, user.role),
                  user |-> [id |-> user_id, name |-> user.name, email |-> user.email,
                            role |-> user.role]])

login(email, password, role) ==
    /\ response' = Respond("login", [email |-> email, password |-> password, role |-> role],
                            NoAuth, login_result(email, password, role))
    /\ before' = Snapshot
    /\ UNCHANGED <<users_collection, books_collection, next_oid, clock, runs>>

\* The tokens a client can hold: register returns one when the user is created and
\* login one at any later time, each signed over the user's id and stored role.
IssuedTokens ==
    UNION {{jwt_encode([sub |-> str_oid(o), role |-> users_collection[o].role,
                        exp |-> t + TOKEN_DAYS], SECRET_KEY) :
                t \in users_collection[o].created_at..clock} :
           o \in DOMAIN users_collection}

ForgedTokens ==
    {jwt_encode([sub |-> str_oid(1), role |-> "admin", exp |-> MaxClock + TOKEN_DAYS], "guessed-key")}

TokenInputs == IssuedTokens \cup ForgedTokens

\* A route that only resolves the caller: Depends(verify_token) and nothing else
VerifyToken ==
    /\ \E token \in TokenInputs :
         response' = Respond("verify_token", [token |-> token], NoAuth, verify_token(token))
    /\ before' = Snapshot
    /\ UNCHANGED <<users_collection, books_collection, next_oid, clock, runs>>

Register ==
    \E name \in Names, email \in Emails, password \in Passwords, role \in RoleInputs, salt \in Salts :
        register(name, email, password, role, salt)

Login == \E email \in Emails, password \in LoginPasswords, role \in RoleInputs : login(email, password, role)

Tick ==
    /\ clock + TOKEN_DAYS <= MaxClock
    /\ clock' = clock + TOKEN_DAYS
    /\ UNCHANGED <<users_collection, books_collection, next_oid, response, before, runs>>

----------------------------------------------------------------------------
(* Listings: documents already in Book_inventory.  The collection holds     *)
(* the legacy export ("Book Name", "Publisher", "Price", "images") beside   *)
(* documents in the shape upload_book writes.                               *)

LegacyDoc ==
    ("Book Name" :> "Algebra I") @@ ("Publisher" :> "XYZ Press") @@ ("Price" :> 15)
    @@ ("images" :> <<"http://x/1.png">>)

\* A listing as upload_book stores it, left by an account that is not in users
UploadedDoc ==
    [title |-> "Used Physics", author |-> "Halliday", price |-> 20, category |-> "Science",
     condition |-> "Fair", description |-> None, isbn |-> None, image |-> None,
     sellerId |-> str_oid(0), sellerEmail |-> "z@x.pk", sellerName |-> "Seller",
     status |-> "active", created_at |-> 0]

\* The collection with docs[1], docs[2], ... inserted in this order
StoreOf(docs) == [o \in 1..Len(docs) |-> docs[o]]

\* Python's truth value of an optional string parameter
Truthy(form, k) == Has(form, k) /\ form[k] # ""

\* f"/uploads/{datetime.utcnow().timestamp()}_{image.filename}"
upload_url(filename) == "/uploads/" \o ToString(clock) \o "_" \o filename

\* str(book.get("sellerId"))
str_sellerId(book) == IF Has(book, "sellerId") THEN book["sellerId"] ELSE "None"

----------------------------------------------------------------------------
(* GET /books/{book_id} *)

get_book_result(book_id) ==
    LET oid == ObjectId(book_id) IN
    IF ~IsValidOid(book_id) THEN HTTPException(404, "Book not found")     \* except Exception
    ELSE IF oid \notin DOMAIN books_collection THEN HTTPException(404, "Book not found")
    ELSE LET b0 == Put(books_collection[oid], "_id", str_oid(oid))
             b1 == IF ~Has(b0, "title") THEN Put(b0, "title", Get(b0, "Book Name", "Untitled"))
                   ELSE b0
             b2 == IF ~Has(b1, "author") THEN Put(b1, "author", Get(b1, "Publisher", "Unknown"))
                   ELSE b1
             b3 == IF ~Has(b2, "image") /\ Has(b2, "images")
                   THEN Put(b2, "image", IF Len(b2["images"]) > 0 THEN b2["images"][1] ELSE None)
                   ELSE b2 IN
         Ok(b3)

get_book(book_id) ==
    /\ response' = Respond("get_book", [book_id |-> book_id], NoAuth, get_book_result(book_id))
    /\ before' = Snapshot
    /\ UNCHANGED <<users_collection, books_collection, next_oid, clock, runs>>

----------------------------------------------------------------------------
(* GET /books *)

\* price_query with the lower bound of "0-20" copied to "20-50"
price_query_copied(priceRange) ==
    IF priceRange = "0-20" THEN [gte |-> 0, lte |-> 20]
    ELSE IF priceRange = "20-50" THEN [gte |-> 0, lte |-> 50]
    ELSE IF priceRange = "50-100" THEN [gte |-> 50, lte |-> 100]
    ELSE IF priceRange = "100+" THEN [gte |-> 100]
    ELSE EmptyDoc

\* query["price"] for a priceRange
price_query(priceRange) ==
    IF priceRange = "0-20" THEN [gte |-> 0, lte |-> 20]
    ELSE IF priceRange = "20-50" THEN [gte |-> 20, lte |-> 50]
    ELSE IF priceRange = "50-100" THEN [gte |-> 50, lte |-> 100]
    ELSE IF priceRange = "100+" THEN [gte |-> 100]
    ELSE EmptyDoc

\* {"$regex": pattern, "$options": "i"} on a field, the pattern being plain text
regex_i(book, field, pattern) == Has(book, field) /\ Contains(lower(book[field]), lower(pattern))

build_query(filters) ==
    [k \in {f \in {"search", "category", "condition"} : Truthy(filters, f)}
           \cup (IF Truthy(filters, "priceRange") /\ price_query(filters["priceRange"]) # EmptyDoc
                 THEN {"price"} ELSE {})
        |-> IF k = "price" THEN price_query(filters["priceRange"]) ELSE filters[k]]

\* Whether a stored document matches the query
matches(book, query) ==
    /\ (Has(query, "search")
        => (regex_i(book, "title", query["search"]) \/ regex_i(book, "author", query["search"])))
    /\ (Has(query, "category")
        => (Has(book, "category") /\ book["category"] = query["category"]))
    /\ (Has(query, "condition")
        => (Has(book, "condition") /\ book["condition"] = query["condition"]))
    /\ (Has(query, "price")
        => (/\ Has(book, "price")
            /\ (Has(query["price"], "gte") => book["price"] >= query["price"]["gte"])
            /\ (Has(query["price"], "lte") => book["price"] <= query["price"]["lte"])))

\* The ids of a set in the order the collection returns them
RECURSIVE in_order(_)
in_order(ids) ==
    IF ids = {} THEN <<>>
    ELSE LET first == CHOOSE o \in ids : \A p \in ids : o <= p IN
         <<first>> \o in_order(ids \ {first})

\* find(query).limit(limit)
find(query, limit) ==
    LET found == in_order({o \in DOMAIN books_collection : matches(books_collection[o], query)}) IN
    IF limit > 0 /\ Len(found) > limit THEN SubSeq(found, 1, limit) ELSE found

\* The old-schema mapping of GET /books
map_old_schema(oid) ==
    LET b0 == Put(books_collection[oid], "_id", str_oid(oid))
        b1 == IF ~Has(b0, "title") /\ Has(b0, "Book Name")
              THEN Put(b0, "title", Get(b0, "Book Name", "Untitled")) ELSE b0
        b2 == IF ~Has(b1, "author") THEN Put(b1, "author", Get(b1, "Publisher", "Unknown")) ELSE b1
        b3 == IF ~Has(b2, "price") THEN Put(b2, "price", Get(b2, "Price", 0)) ELSE b2
        b4 == IF ~Has(b3, "image") /\ Has(b3, "images")
              THEN Put(b3, "image", IF Len(b3["images"]) > 0 THEN b3["images"][1] ELSE None)
              ELSE b3 IN
    b4

get_books_result(filters, limit) ==
    LET ids == find(build_query(filters), limit) IN
    Ok([books |-> [i \in 1..Len(ids) |-> map_old_schema(ids[i])]])

get_books(filters, limit) ==
    /\ response' = Respond("get_books", [filters |-> filters, limit |-> limit], NoAuth,
                           get_books_result(filters, limit))
    /\ before' = Snapshot
    /\ UNCHANGED <<users_collection, books_collection, next_oid, clock, runs>>

----------------------------------------------------------------------------
(* POST /books/upload *)

upload_book_result(form, current_user) ==
    LET image_url == IF Has(form, "image") THEN upload_url(form["image"]) ELSE None IN
    IF ~Has(current_user, "id") \/ ~Has(current_user, "email") \/ ~Has(current_user, "name")
    THEN Unhandled("KeyError")
    ELSE Ok([title |-> form["title"], author |-> form["author"], price |-> form["price"],
             category |-> form["category"], condition |-> form["condition"],
             description |-> Get(form, "description", None), isbn |-> Get(form, "isbn", None),
             image |-> image_url, sellerId |-> current_user["id"],
             sellerEmail |-> current_user["email"], sellerName |-> current_user["name"],
             status |-> "active", created_at |-> clock])

upload_book(token, form) ==
    LET auth == verify_token(token)
        r == IF auth.status # 200 THEN auth ELSE upload_book_result(form, auth.body) IN
    /\ response' = Respond("upload_book", [form |-> form], auth,
                           IF r.status = 200 THEN Ok(Put(r.body, "_id", str_oid(next_oid))) ELSE r)
    /\ before' = Snapshot
    /\ IF r.status = 200
       THEN /\ books_collection' = Insert(books_collection, next_oid, r.body)
            /\ next_oid' = next_oid + 1
       ELSE UNCHANGED <<books_collection, next_oid>>
    /\ UNCHANGED <<users_collection, clock, runs>>

----------------------------------------------------------------------------
(* PUT /books/{book_id} *)

\* Whether the ownership check lets the caller through, or what it raises
authorize(book, current_user) ==
    IF current_user["role"] = "admin" THEN Ok(NoBody)
    ELSE IF ~Has(current_user, "id") THEN Unhandled("KeyError")
    ELSE IF str_sellerId(book) # current_user["id"] THEN HTTPException(403, "Not authorized")
    ELSE Ok(NoBody)

\* update_data testing every parameter with `is not None`
update_data_not_none(form) ==
    [k \in DOMAIN form |-> IF k = "image" THEN upload_url(form["image"]) ELSE form[k]]

update_data(form) ==
    LET strings == {k \in {"title", "author", "category", "condition", "description", "status"} :
                        Truthy(form, k)}
        price == IF Has(form, "price") THEN {"price"} ELSE {}
        image == IF Has(form, "image") THEN {"image"} ELSE {} IN
    [k \in strings \cup price \cup image |->
        IF k = "image" THEN upload_url(form["image"]) ELSE form[k]]

\* The document after update_one, or the failure; {"$set": {}} changes nothing
update_book_result(book_id, form, current_user) ==
    LET oid == ObjectId(book_id) IN
    IF ~IsValidOid(book_id) THEN Unhandled("InvalidId")
    ELSE IF oid \notin DOMAIN books_collection THEN HTTPException(404, "Book not found")
    ELSE LET allowed == authorize(books_collection[oid], current_user) IN
         IF allowed.status # 200 THEN allowed
         ELSE Ok(Merge(books_collection[oid], update_data(form)))

update_book(token, book_id, form) ==
    LET auth == verify_token(token)
        r == IF auth.status # 200 THEN auth ELSE update_book_result(book_id, form, auth.body) IN
    /\ response' = Respond("update_book", [book_id |-> book_id, form |-> form], auth,
                           IF r.status = 200 THEN Ok(Put(r.body, "_id", book_id)) ELSE r)
    /\ before' = Snapshot
    /\ books_collection' = IF r.status = 200
                           THEN Insert(books_collection, ObjectId(book_id), r.body)
                           ELSE books_collection
    /\ UNCHANGED <<users_collection, next_oid, clock, runs>>

----------------------------------------------------------------------------
(* DELETE /books/{book_id} *)

delete_book_result(book_id, current_user) ==
    LET oid == ObjectId(book_id) IN
    IF ~IsValidOid(book_id) THEN Unhandled("InvalidId")
    ELSE IF oid \notin DOMAIN books_collection THEN HTTPException(404, "Book not found")
    ELSE LET allowed == authorize(books_collection[oid], current_user) IN
         IF allowed.status # 200 THEN allowed
         ELSE Ok([message |-> "Book deleted successfully"])

delete_book(token, book_id) ==
    LET auth == verify_token(token)
        r == IF auth.status # 200 THEN auth ELSE delete_book_result(book_id, auth.body) IN
    /\ response' = Respond("delete_book", [book_id |-> book_id], auth, r)
    /\ before' = Snapshot
    /\ books_collection' = IF r.status = 200
                           THEN Remove(books_collection, ObjectId(book_id))
                           ELSE books_collection
    /\ UNCHANGED <<users_collection, next_oid, clock, runs>>

----------------------------------------------------------------------------
(* Inputs of the listing routes *)

\* Strings that are no ObjectId: too long and not hexadecimal; too short
MalformedIds == {"nope", "1"}

\* The ids of the documents, next_oid's, which no document has, and the malformed ones
BookIdInputs == {str_oid(o) : o \in DOMAIN books_collection \cup {next_oid}} \cup MalformedIds

UploadForms ==
    {[title |-> "Calculus", author |-> "Stewart", price |-> 30, category |-> "Science",
      condition |-> "Good"],
     [title |-> "Calculus", author |-> "Stewart", price |-> 30, category |-> "Science",
      condition |-> "Good", description |-> "Notes", isbn |-> "978", image |-> "cover.png"]}

UpdateForms ==
    {EmptyDoc,
     [title |-> "", author |-> "", category |-> "", condition |-> "", description |-> "",
      status |-> ""],
     [title |-> "Calculus", author |-> "", price |-> 0],
     [status |-> "sold", description |-> "", category |-> "Science", condition |-> "Good",
      image |-> "cover.png"]}

GetBook == \E book_id \in BookIdInputs : get_book(book_id)

UploadBook == \E token \in TokenInputs, form \in UploadForms : upload_book(token, form)

UpdateBook ==
    \E token \in TokenInputs, book_id \in BookIdInputs, form \in UpdateForms :
        update_book(token, book_id, form)

DeleteBook == \E token \in TokenInputs, book_id \in BookIdInputs : delete_book(token, book_id)

NoResponse == Respond("none", [nothing |-> None], NoAuth, [status |-> 0, detail |-> "", body |-> NoBody])

InitAuth ==
    /\ users_collection = EmptyDoc
    /\ books_collection = EmptyDoc
    /\ next_oid = 1
    /\ clock = 0
    /\ response = NoResponse
    /\ before = Snapshot
    /\ runs = <<>>

\* The listing routes, over a collection that already holds documents
ListingSeeds == {<<LegacyDoc, UploadedDoc>>}

Init ==
    /\ users_collection = EmptyDoc
    /\ \E docs \in ListingSeeds :
         /\ books_collection = StoreOf(docs)
         /\ next_oid = Len(docs) + 1
    /\ clock = 0
    /\ response = NoResponse
    /\ before = Snapshot
    /\ runs = <<>>

Next == Register \/ GetBook \/ UploadBook \/ UpdateBook \/ DeleteBook

Spec == Init /\ [][Next]_vars

----------------------------------------------------------------------------
(* The read routes over any contents of the collection *)

\* A document with neither "title" nor "Book Name", and an empty images list
BareDoc == ("sku" :> "K-77") @@ ("images" :> <<>>)

PricedDoc(price) == Put(UploadedDoc, "price", price)

SearchPool ==
    {LegacyDoc, BareDoc} \cup {PricedDoc(price) : price \in {0, 20, 21, 50, 100, 150}}

RECURSIVE SeqsUpTo(_, _)
SeqsUpTo(S, n) ==
    IF n = 0 THEN {<<>>}
    ELSE LET shorter == SeqsUpTo(S, n - 1) IN
         shorter \cup {Append(q, d) : q \in {x \in shorter : Len(x) = n - 1}, d \in S}

PriceRangeInputs == {"0-20", "20-50", "50-100", "100+", "cheap", ""}

FilterInputs ==
    {EmptyDoc}
    \cup {[priceRange |-> r] : r \in PriceRangeInputs}
    \cup {[search |-> "PHYS"], [search |-> "", category |-> "Science", condition |-> "Fair"],
          [search |-> "halli", priceRange |-> "20-50", category |-> "Science"]}

LimitInputs == {1, DEFAULT_LIMIT}

GetBooks == \E filters \in FilterInputs, limit \in LimitInputs : get_books(filters, limit)

InitSearch ==
    /\ users_collection = EmptyDoc
    /\ \E docs \in SeqsUpTo(SearchPool, MaxSeed) :
         /\ books_collection = StoreOf(docs)
         /\ next_oid = Len(docs) + 1
    /\ clock = 0
    /\ response = NoResponse
    /\ before = Snapshot
    /\ runs = <<>>

NextSearch == GetBooks \/ GetBook

SpecSearch == InitSearch /\ [][NextSearch]_vars

----------------------------------------------------------------------------
(* src/test_ingestion.py.  A spreadsheet read by pd.read_excel(...).fillna  *)
(* is its rows, each a function from the sheet's columns to cells, blank    *)
(* cells holding "N/A"; a file that cannot be read raises instead.  The     *)
(* script calls run_full_ingestion three times, one file after the other.   *)

SOURCES == <<"katib.pk", "tariqbookstore.com", "idrisbookbank.com">>

\* row.get('Board', 'General'), then the keyword logic on a blank cell
board_of(row, book_title) ==
    LET board == Get(row, "Board", "General") IN
    IF board = "N/A"
    THEN IF Contains(book_title, "Sindh") THEN "Sindh Board"
         ELSE IF Contains(book_title, "Punjab") THEN "Punjab Board"
         ELSE board
    ELSE board

\* The document built from one row
document_of(row, source_name) ==
    LET book_title == Get(row, "Book Name", Get(row, "Book_Name", "No Title")) IN
    [category_type |-> "coursebook",
     sub_category_type |-> Get(row, "Sub Category", "General"),
     publisher |-> Get(row, "Publisher", "Unknown"),
     board |-> board_of(row, book_title),
     title |-> book_title,
     price |-> Get(row, "Price", 0),
     sku |-> Get(row, "SKU", "N/A"),
     images |-> <<Get(row, "Image URL", Get(row, "Image_URL", ""))>>,
     attributes |-> [school_tags |-> <<replace(strip(lower(Get(row, "School", "General"))), " ", "-")>>,
                     class |-> Get(row, "Class", "General")],
     source |-> source_name,
     last_updated |-> clock]

\* A row whose cells make the loop body raise
Raises(row) == Has(row, "<raises>")

\* run_full_ingestion inserting each document as soon as it is built
run_full_ingestion_row_by_row(file, source_name, written) ==
    IF ~file.readable THEN [inserted |-> <<>>, printed |-> "Error", raised |-> FALSE]
    ELSE LET bad == {i \in 1..Len(file.rows) : Raises(file.rows[i])}
             good == IF bad = {} THEN Len(file.rows)
                     ELSE (CHOOSE i \in bad : \A j \in bad : i <= j) - 1
             records == [i \in 1..good |-> document_of(file.rows[i], source_name)] IN
         IF bad # {} THEN [inserted |-> records, printed |-> "Error", raised |-> FALSE]
         ELSE IF Len(records) = 0 THEN [inserted |-> <<>>, printed |-> "", raised |-> FALSE]
         ELSE IF written < Len(records)
         THEN [inserted |-> SubSeq(records, 1, written), printed |-> "Error", raised |-> FALSE]
         ELSE [inserted |-> records, printed |-> "Successfully uploaded", raised |-> FALSE]

\* One call: the documents insert_many wrote, what was printed, and whether an
\* exception left the function.  `written` is how many documents insert_many wrote
\* before it returned (all of them) or raised (fewer).
run_full_ingestion(file, source_name, written) ==
    IF ~file.readable THEN [inserted |-> <<>>, printed |-> "Error", raised |-> FALSE]
    ELSE IF \E i \in 1..Len(file.rows) : Raises(file.rows[i])
    THEN [inserted |-> <<>>, printed |-> "Error", raised |-> FALSE]
    ELSE LET records == [i \in 1..Len(file.rows) |-> document_of(file.rows[i], source_name)] IN
         IF Len(records) = 0 THEN [inserted |-> <<>>, printed |-> "", raised |-> FALSE]
         ELSE IF written < Len(records)
         THEN [inserted |-> SubSeq(records, 1, written), printed |-> "Error", raised |-> FALSE]
         ELSE [inserted |-> records, printed |-> "Successfully uploaded", raised |-> FALSE]

\* The script is still running: calls remain and no exception has ended it
ScriptRunning ==
    /\ Len(runs) < Len(SOURCES)
    /\ ~(response.op = "run_full_ingestion" /\ response.status = 500)

InsertMany(coll, docs) ==
    [o \in DOMAIN coll \cup (next_oid..(next_oid + Len(docs) - 1)) |->
        IF o \in DOMAIN coll THEN coll[o] ELSE docs[o - next_oid + 1]]

RunIngestion(file, written) ==
    LET source_name == SOURCES[Len(runs) + 1]
        r == run_full_ingestion(file, source_name, written) IN
    /\ ScriptRunning
    /\ response' = Respond("run_full_ingestion", [file |-> file, source_name |-> source_name],
                           NoAuth,
                           IF r.raised THEN Unhandled(r.printed)
                           ELSE [status |-> 200, detail |-> r.printed, body |-> [inserted |-> r.inserted]])
    /\ before' = Snapshot
    /\ books_collection' = InsertMany(books_collection, r.inserted)
    /\ next_oid' = next_oid + Len(r.inserted)
    /\ runs' = Append(runs, r.printed)
    /\ UNCHANGED <<users_collection, clock>>

Unreadable == [readable |-> FALSE, rows |-> <<>>]

Sheet(rows) == [readable |-> TRUE, rows |-> rows]

\* A sheet with a Board column, blank in places
KatibSheet ==
    Sheet(<<("Book Name" :> "Sindh Board Math") @@ ("Board" :> "N/A") @@ ("Price" :> 15)
                @@ ("School" :> " City School "),
            ("Book Name" :> "Punjab Physics") @@ ("Board" :> "Federal Board") @@ ("Price" :> 40),
            ("Book Name" :> "Oxford Math") @@ ("Board" :> "N/A") @@ ("Publisher" :> "Oxford")>>)

\* A sheet without a Board column
TariqSheet ==
    Sheet(<<("Book_Name" :> "Sindh Board Math") @@ ("Price" :> 15)
                @@ ("Image_URL" :> "http://x/2.png"),
            ("Book_Name" :> "Urdu Reader") @@ ("SKU" :> "T-9")>>)

\* A sheet whose second row cannot be transformed
IdrisSheet ==
    Sheet(<<("Book Name" :> "Punjab Sindh Atlas") @@ ("Board" :> "N/A"),
            ("Book Name" :> "Punjab Chemistry") @@ ("Board" :> "N/A") @@ ("<raises>" :> "N/A")>>)

Files == {Unreadable, Sheet(<<>>), KatibSheet, TariqSheet, IdrisSheet}

Ingest ==
    \E file \in Files :
        \E written \in 0..Len(file.rows) : RunIngestion(file, written)

InitIngest ==
    /\ users_collection = EmptyDoc
    /\ books_collection = EmptyDoc
    /\ next_oid = 1
    /\ clock = 0
    /\ response = NoResponse
    /\ before = Snapshot
    /\ runs = <<>>

NextIngest == Ingest

SpecIngest == InitIngest /\ [][NextIngest]_vars

NextAuth == Register \/ Login \/ VerifyToken \/ Tick

SpecAuth == InitAuth /\ [][NextAuth]_vars

----------------------------------------------------------------------------
(* Properties *)

CallArgs == response.args

\* The listing a call with a well-formed book_id names
CalledOid == ObjectId(CallArgs.book_id)

StringFields == {"title", "author", "category", "condition", "description", "status"}

\* C1: update or delete of an existing listing by a caller who is neither admin nor
\* the listing's seller fails with 403 Forbidden and leaves the collection as it
\* was; by an admin it succeeds whatever the listing's sellerId.
C1_ForbiddenUnlessOwnerOrAdmin ==
    (/\ response.op \in {"update_book", "delete_book"}
     /\ response.auth = 200
     /\ IsValidOid(CallArgs.book_id)
     /\ CalledOid \in DOMAIN before.books)
    => /\ ((response.user["role"] # "admin"
               /\ response.user["_id"] # str_sellerId(before.books[CalledOid]))
           => (response.status = 403 /\ books_collection = before.books))
       /\ (response.user["role"] = "admin" => response.status = 200)

\* C2: upload by any caller verify_token accepts succeeds, adds exactly one listing,
\* whose sellerId is the caller's id and whose status is active, and returns it
\* with its id.
C2_UploadCreatesOwnedListing ==
    (response.op = "upload_book" /\ response.auth = 200)
    => /\ response.status = 200
       /\ \E o \in DOMAIN books_collection \ DOMAIN before.books :
            /\ DOMAIN books_collection = DOMAIN before.books \cup {o}
            /\ books_collection[o]["sellerId"] = response.user["_id"]
            /\ books_collection[o]["status"] = "active"
            /\ response.body["_id"] = str_oid(o)
       /\ \A o \in DOMAIN before.books : books_collection[o] = before.books[o]

\* C3: no two user records share an email: a register call whose email is already
\* in users fails with 400 "Email already registered" whatever role it passes, and
\* leaves users, the first record included, as it was.
C3_EmailUnique ==
    /\ \A o1, o2 \in DOMAIN users_collection :
         users_collection[o1].email = users_collection[o2].email => o1 = o2
    /\ ((/\ response.op = "register"
         /\ \E o \in DOMAIN before.users : before.users[o].email = CallArgs.email)
        => (/\ response.status = 400
            /\ response.detail = "Email already registered"
            /\ users_collection = before.users))

\* C3 witness: a second registration of an email, with a role that is not even valid
C3_Witness ==
    /\ response.op = "register"
    /\ CallArgs.role = "guest"
    /\ \E o \in DOMAIN before.users : before.users[o].email = CallArgs.email
    /\ response.status = 400
    /\ users_collection # EmptyDoc

\* C4: the token a successful register or login returns verifies at once, to the
\* id of the user it was issued for and the role it was issued with.
C4_IssuedTokenVerifies ==
    (response.op \in {"register", "login"} /\ response.status = 200 /\ response.at = clock)
    => LET identity == verify_token(response.body.token)
           issued_for == CHOOSE o \in DOMAIN users_collection :
                             users_collection[o].email = CallArgs.email IN
       /\ identity.status = 200
       /\ identity.body["_id"] = str_oid(issued_for)
       /\ identity.body["_id"] = response.body.user.id
       /\ identity.body["role"] = response.body.token.payload.role
       /\ identity.body["role"] = response.body.user.role

\* C4 witness: an admin logs in a week after registering
C4_Witness ==
    /\ response.op = "login"
    /\ response.status = 200
    /\ response.body.user.role = "admin"
    /\ response.at = clock
    /\ clock > 0
    /\ verify_token(response.body.token).status = 200

\* C5: an update that goes through changes, in the listing it names, only fields
\* that were provided and, for string fields, provided non-empty; every other
\* field keeps its value or stays absent, and no other listing changes.
C5_UpdateFrame ==
    (response.op = "update_book" /\ response.status = 200)
    => LET form == CallArgs.form
           old == before.books[CalledOid]
           new == books_collection[CalledOid] IN
       /\ DOMAIN books_collection = DOMAIN before.books
       /\ \A k \in DOMAIN old \cup DOMAIN new :
            (~Has(form, k) \/ (k \in StringFields /\ form[k] = ""))
            => /\ (Has(old, k) <=> Has(new, k))
               /\ (Has(old, k) => new[k] = old[k])
       /\ \A o \in DOMAIN before.books \ {CalledOid} : books_collection[o] = before.books[o]
       /\ users_collection = before.users

\* C5 witness: title "Calculus", author "" and price 0 sent for the uploaded listing
C5_Witness ==
    /\ response.op = "update_book"
    /\ response.status = 200
    /\ Has(CallArgs.form, "author") /\ CallArgs.form["author"] = ""
    /\ Has(CallArgs.form, "title") /\ CallArgs.form["title"] = "Calculus"
    /\ Has(before.books[CalledOid], "author")
    /\ books_collection[CalledOid]["author"] = "Halliday"
    /\ books_collection[CalledOid]["title"] = "Calculus"
    /\ before.books[CalledOid]["title"] = "Used Physics"
    /\ Cardinality(DOMAIN books_collection) = 2

\* C6: get_book, update_book and delete_book answer a malformed book_id as they
\* answer an id no listing has, 404 "Book not found", and change nothing.
C6_MalformedIdIsNotFound ==
    (/\ response.op \in {"get_book", "update_book", "delete_book"}
     /\ (response.op # "get_book" => response.auth = 200)
     /\ ~IsValidOid(CallArgs.book_id))
    => /\ response.status = 404
       /\ response.detail = "Book not found"
       /\ books_collection = before.books

\* The canonical view of a stored document
IsCanonicalView(returned, stored) ==
    /\ Has(returned, "title")
    /\ returned["title"] = IF Has(stored, "title") THEN stored["title"]
                           ELSE Get(stored, "Book Name", "Untitled")
    /\ Has(returned, "author")
    /\ returned["author"] = IF Has(stored, "author") THEN stored["author"]
                            ELSE Get(stored, "Publisher", "Unknown")
    /\ Has(returned, "price")
    /\ returned["price"] = IF Has(stored, "price") THEN stored["price"]
                           ELSE Get(stored, "Price", 0)
    /\ ((~Has(stored, "image") /\ Has(stored, "images") /\ Len(stored["images"]) > 0)
        => (Has(returned, "image") /\ returned["image"] = stored["images"][1]))
    /\ \A k \in DOMAIN stored : Has(returned, k) /\ returned[k] = stored[k]

\* C7: every listing GET /books and GET /books/{id} return is the canonical view of
\* its stored document: title from "Book Name" else "Untitled", author from
\* "Publisher" else "Unknown", price from "Price" else 0, image from the first of a
\* non-empty images list, and the fields already present unchanged.
C7_ReturnedListingsCanonical ==
    /\ ((response.op = "get_books" /\ response.status = 200)
       => \A i \in 1..Len(response.body.books) :
            IsCanonicalView(response.body.books[i],
                            books_collection[ObjectId(response.body.books[i]["_id"])]))
    /\ ((response.op = "get_book" /\ response.status = 200)
        => IsCanonicalView(response.body, books_collection[CalledOid]))

\* The board the ingestion is to give a row
ClaimedBoard(row, title) ==
    IF Has(row, "Board") /\ row["Board"] # "N/A" THEN row["Board"]
    ELSE IF Contains(title, "Sindh") THEN "Sindh Board"
    ELSE IF Contains(title, "Punjab") THEN "Punjab Board"
    ELSE "General"

\* C8: the board of every ingested document is the row's Board cell when the column
\* is there and not blank, else "Sindh Board" or "Punjab Board" when the title
\* contains "Sindh" or "Punjab", else "General".
C8_BoardDerivation ==
    (response.op = "run_full_ingestion" /\ response.detail = "Successfully uploaded")
    => \A i \in 1..Len(response.body.inserted) :
         response.body.inserted[i].board
             = ClaimedBoard(CallArgs.file.rows[i], response.body.inserted[i].title)

\* A call whose file could not be read or whose rows could not all be transformed
BatchFailed ==
    /\ response.op = "run_full_ingestion"
    /\ \/ ~CallArgs.file.readable
       \/ \E i \in 1..Len(CallArgs.file.rows) : Raises(CallArgs.file.rows[i])

\* C9: a batch that raises while it is read or transformed does not raise out of
\* run_full_ingestion, inserts none of its records, and the script goes on to the
\* batches after it.
C9_FailedBatchIsolated ==
    BatchFailed
    => /\ response.status = 200
       /\ books_collection = before.books
       /\ (Len(runs) < Len(SOURCES) => ScriptRunning)

\* C9 witness: after a batch that was uploaded, a batch whose second row raises
C9_Witness ==
    /\ BatchFailed
    /\ CallArgs.file = IdrisSheet
    /\ runs = <<"Successfully uploaded", "Error">>
    /\ books_collection # EmptyDoc
    /\ ScriptRunning

PriceInterval(priceRange) ==
    IF priceRange = "0-20" THEN 0..20
    ELSE IF priceRange = "20-50" THEN 20..50
    ELSE 50..100

\* filters without its priceRange
OtherFilters(filters) == [k \in DOMAIN filters \ {"priceRange"} |-> filters[k]]

\* C10: GET /books with priceRange "0-20", "20-50" or "50-100" returns only listings
\* priced within [0,20], [20,50] or [50,100], with "100+" only listings priced 100
\* or more, and with an absent or unrecognized priceRange what it returns without
\* one.
C10_PriceRange ==
    (response.op = "get_books")
    => LET filters == CallArgs.filters
           range == Get(filters, "priceRange", "")
           books == response.body.books IN
       /\ (range \in {"0-20", "20-50", "50-100"}
           => \A i \in 1..Len(books) : books[i]["price"] \in PriceInterval(range))
       /\ (range = "100+" => \A i \in 1..Len(books) : books[i]["price"] >= 100)
       /\ (range \notin {"0-20", "20-50", "50-100", "100+"}
           => books = get_books_result(OtherFilters(filters), CallArgs.limit).body.books)

\* C10 witness: "20-50" over a collection holding a listing at 50 and one at 100
C10_Witness ==
    /\ response.op = "get_books"
    /\ Get(CallArgs.filters, "priceRange", "") = "20-50"
    /\ Len(response.body.books) = 1
    /\ response.body.books[1]["price"] = 50
    /\ \E o \in DOMAIN books_collection :
         Has(books_collection[o], "price") /\ books_collection[o]["price"] = 100

====
